---- MODULE Spec2Model ----
(***************************************************************************)
(* kiorg video preview: src/ui/preview/video.rs.                           *)
(*                                                                         *)
(* read_video_with_metadata calls extract_video_thumbnail, which opens the *)
(* container, computes the output geometry and the metadata entries,       *)
(* samples four seek positions, scores every decoded frame with            *)
(* calculate_frame_quality and selects the best one; on any failure the    *)
(* caller substitutes generate_placeholder_thumbnail.                      *)
(*                                                                         *)
(* f64 values are modelled by exact rationals <<num, den>> (den > 0).      *)
(* std String values are TLA+ strings.                                     *)
(***************************************************************************)
EXTENDS Integers, Sequences, FiniteSets, TLC

VARIABLES
    pc,                 \* position in read_video_with_metadata / extract_video_thumbnail
    width, height,      \* decoder.width(), decoder.height()
    par,                \* decoder.aspect_ratio() as <<num, den>>
    duration,           \* stream.duration()
    time_base,          \* stream.time_base() as <<num, den>>
    metadata,           \* HashMap<String, String>: a function on the inserted keys
    seek_idx,           \* index into seek_positions of the sample point being visited
    packets_processed,  \* the per-sample counter of video packets
    frames,             \* Vec<(usize, usize, Vec<u8>)>
    frame_scores,       \* Vec<f64>
    result,             \* what extract_video_thumbnail returned
    preview,            \* what read_video_with_metadata returned
    placeholder_calls,  \* number of calls of generate_placeholder_thumbnail
    attempts,           \* history: the seeks issued, as <<sample point, target>>
    frame_sample,       \* history: the sample point each entry of frames came from
    packets_read,       \* history: packets taken from ictx.packets() at this sample point
    packets_sent,       \* history: packets given to decoder.send_packet at this sample point
    last_exit,          \* history: how the sample point visited last was left
    fin,                \* the argument of the pure function under check
    fout                \* its value

vars == <<pc, width, height, par, duration, time_base, metadata, seek_idx,
          packets_processed, frames, frame_scores, result, preview,
          placeholder_calls, attempts, frame_sample, packets_read, packets_sent,
          last_exit, fin, fout>>

extractVars == <<pc, width, height, par, duration, time_base, metadata, seek_idx,
                 packets_processed, frames, frame_scores, result, preview,
                 placeholder_calls, attempts, frame_sample, packets_read, packets_sent,
                 last_exit>>

(***************************************************************************)
(* Arithmetic helpers                                                      *)
(***************************************************************************)
RECURSIVE Gcd(_, _)
Gcd(a, b) == IF b = 0 THEN a ELSE Gcd(b, a % b)

Lcm(a, b) == (a \div Gcd(a, b)) * b

\* a rational in lowest terms
Rat(n, d) == LET g == Gcd(n, d) IN <<n \div g, d \div g>>

RatAdd(p, q) ==
    LET l == Lcm(p[2], q[2])
    IN  Rat(p[1] * (l \div p[2]) + q[1] * (l \div q[2]), l)

\* partial_cmp of two non-negative rationals a/b and c/d: -1, 0 or 1.
\* Euclid's scheme, so that no product of two large numbers is formed.
RECURSIVE RatCmp(_, _, _, _)
RatCmp(a, b, c, d) ==
    LET q1 == a \div b
        q2 == c \div d
        r1 == a % b
        r2 == c % d
    IN  IF q1 < q2 THEN -1
        ELSE IF q1 > q2 THEN 1
        ELSE IF r1 = 0 /\ r2 = 0 THEN 0
        ELSE IF r1 = 0 THEN -1
        ELSE IF r2 = 0 THEN 1
        ELSE RatCmp(d, r2, b, r1)

RatLeq(p, q) == RatCmp(p[1], p[2], q[1], q[2]) <= 0
RatLess(p, q) == RatCmp(p[1], p[2], q[1], q[2]) < 0

RatZero == <<0, 1>>
RatOne == <<1, 1>>

\* f64::min(self, 1.0)
RatMin1(p) == IF RatLeq(p, RatOne) THEN p ELSE RatOne

RECURSIVE SumSeq(_)
SumSeq(s) == IF s = << >> THEN 0 ELSE Head(s) + SumSeq(Tail(s))

(***************************************************************************)
(* format!: Display of unsigned integers, with and without {:02}           *)
(***************************************************************************)
Digit(d) == SubSeq("0123456789", d + 1, d + 1)

RECURSIVE FormatUInt(_)
FormatUInt(n) == IF n < 10 THEN Digit(n) ELSE FormatUInt(n \div 10) \o Digit(n % 10)

\* the padding width dropped: {n} for {n:02}
Pad02_Unpadded(n) == FormatUInt(n)

\* {n:02}: zero-padded to a minimum width of two
Pad02(n) == IF n < 10 THEN "0" \o FormatUInt(n) ELSE FormatUInt(n)

(***************************************************************************)
(* Output geometry and metadata entries (extract_video_thumbnail)          *)
(***************************************************************************)
\* let has_par = par.0 != 0 && par.1 != 0 && !(par.0 == 1 && par.1 == 1);
has_par(p) == p[1] # 0 /\ p[2] # 0 /\ ~(p[1] = 1 /\ p[2] = 1)

\* the ratio applied upside down
display_width_inverted(w, p) == (w * p[2]) \div p[1]

\* (decoder.width() as f64 * par.0 as f64 / par.1 as f64) as u32
display_width(w, p) == (w * p[1]) \div p[2]

\* let (output_width, output_height) = if has_par { .. } else { .. };
output_dims(w, h, p) ==
    IF has_par(p) THEN <<display_width(w, p), h>> ELSE <<w, h>>

output_width == output_dims(width, height, par)[1]
output_height == output_dims(width, height, par)[2]

\* format!("{width}x{height}")
FormatDims(w, h) == FormatUInt(w) \o "x" \o FormatUInt(h)

\* format!("{}:{}", par.0, par.1)
FormatPar(p) == FormatUInt(p[1]) \o ":" \o FormatUInt(p[2])

\* duration as f64 * time_base.0 as f64 / time_base.1 as f64, as a rational.
\* A negative duration (AV_NOPTS_VALUE) gives a negative number of seconds.
duration_seconds(d, tb) == <<d * tb[1], tb[2]>>

\* `x as u64` of an f64: truncation toward zero, saturating at 0 for negatives
total_seconds(d, tb) ==
    LET ds == duration_seconds(d, tb)
    IN  IF ds[1] < 0 THEN 0 ELSE ds[1] \div ds[2]

\* the value inserted under "Duration"
FormatDuration(total) ==
    LET hours == total \div 3600
        minutes == (total % 3600) \div 60
        seconds == total % 60
    IN  IF hours > 0
        THEN FormatUInt(hours) \o ":" \o Pad02(minutes) \o ":" \o Pad02(seconds)
        ELSE FormatUInt(minutes) \o ":" \o Pad02(seconds)

\* HashMap::insert
Insert(m, k, v) == [x \in DOMAIN m \cup {k} |-> IF x = k THEN v ELSE m[x]]

\* "Display Dimensions" inserted outside the `if has_par`
InsertCoreMetadata_AlwaysDisplay(m, w, h, p, d, tb) ==
    LET m1 == Insert(m, "Dimensions", FormatDims(w, h))
        od == output_dims(w, h, p)
        m2 == Insert(m1, "Display Dimensions", FormatDims(od[1], od[2]))
        m3 == IF has_par(p) THEN Insert(m2, "Pixel Aspect Ratio", FormatPar(p)) ELSE m2
    IN  Insert(m3, "Duration", FormatDuration(total_seconds(d, tb)))

\* the metadata.insert calls of extract_video_thumbnail, in order
InsertCoreMetadata(m, w, h, p, d, tb) ==
    LET m1 == Insert(m, "Dimensions", FormatDims(w, h))
        od == output_dims(w, h, p)
        m2 == IF has_par(p)
              THEN Insert(Insert(m1, "Display Dimensions", FormatDims(od[1], od[2])),
                          "Pixel Aspect Ratio", FormatPar(p))
              ELSE m1
    IN  Insert(m2, "Duration", FormatDuration(total_seconds(d, tb)))

(***************************************************************************)
(* calculate_frame_quality                                                 *)
(*                                                                         *)
(* Luminance is 0.2126 r + 0.7152 g + 0.0722 b.  The colours the model     *)
(* draws frames from (Palette) all have a whole-number luminance, so the   *)
(* division by LumScale below is exact and every later quantity is an      *)
(* exact rational of small integers.                                       *)
(***************************************************************************)
LumScale == 10000

Luminance10k(px) == 2126 * px[1] + 7152 * px[2] + 722 * px[3]

Luminance(px) == Luminance10k(px) \div LumScale

\* brightness_values, one per element of rgb_data
BrightnessValues(rgb_data) == [i \in 1..Len(rgb_data) |-> Luminance(rgb_data[i])]

\* brightness_score from average_brightness = total / pixel_count; with a
\* pixel_count of 0 the average is NaN or infinite, every comparison of the
\* chain is false and the last branch gives 0.0
brightness_score(total, pixel_count) ==
    IF pixel_count = 0 THEN RatZero
    ELSE IF total < 22 * pixel_count THEN RatZero
    ELSE IF total < 56 * pixel_count
        THEN Rat(total - 22 * pixel_count, (56 - 22) * pixel_count)
    ELSE IF total <= 171 * pixel_count THEN RatOne
    ELSE IF total <= 194 * pixel_count
        THEN Rat((194 - 171) * pixel_count - (total - 171 * pixel_count),
                 (194 - 171) * pixel_count)
    ELSE RatZero

\* the .min(1.0) left out
variance_score_unclamped(bv, total, pixel_count) ==
    LET sq == [i \in 1..Len(bv) |-> (pixel_count * bv[i] - total) * (pixel_count * bv[i] - total)]
    IN  Rat(SumSeq(sq), 5000 * pixel_count * pixel_count * pixel_count)

\* sum over v of (v - average)^2, divided by pixel_count, then by 5000, min 1.0;
\* (v - total/n)^2 = (n v - total)^2 / n^2; with a pixel_count of 0 the variance
\* is NaN or infinite and .min(1.0) gives 1.0
variance_score(bv, total, pixel_count) ==
    LET sq == [i \in 1..Len(bv) |-> (pixel_count * bv[i] - total) * (pixel_count * bv[i] - total)]
    IN  IF pixel_count = 0 THEN RatOne
        ELSE RatMin1(Rat(SumSeq(sq), 5000 * pixel_count * pixel_count * pixel_count))

\* the interior pixels the Laplacian loop visits: y in 1..height-1, x in 1..width-1
\* with center_idx < brightness_values.len().  When height - 1 or width - 1
\* wraps around (a dimension of 0 in a build without overflow checks) the
\* frame has no pixel, no center_idx is below brightness_values.len() = 0, and
\* the set is empty as it is here.
InteriorIdx(bv, w, h) ==
    {y * w + x : y \in 1..(h - 2), x \in 1..(w - 2)} \cap 0..(Len(bv) - 1)

Laplacian(bv, w, c) ==
    4 * bv[c + 1] - bv[c - w + 1] - bv[c + w + 1] - bv[c] - bv[c + 2]

RECURSIVE SumSq(_, _, _)
SumSq(bv, w, idx) ==
    IF idx = {} THEN 0
    ELSE LET c == CHOOSE i \in idx : TRUE
         IN  Laplacian(bv, w, c) * Laplacian(bv, w, c) + SumSq(bv, w, idx \ {c})

sharpness_score(bv, w, h) ==
    LET idx == InteriorIdx(bv, w, h)
        laplacian_count == Cardinality(idx)
    IN  IF laplacian_count > 0
        THEN RatMin1(Rat(SumSq(bv, w, idx), 2000 * laplacian_count))
        ELSE RatZero

\* the weight of each sub-score, 0.33
WeightNum == 33
WeightDen == 100

\* the three sub-scores of a frame
SubScores(rgb_data, w, h) ==
    LET pixel_count == w * h
        bv == BrightnessValues(rgb_data)
        total == SumSeq(bv)
    IN  [brightness |-> brightness_score(total, pixel_count),
         variance   |-> variance_score(bv, total, pixel_count),
         sharpness  |-> sharpness_score(bv, w, h)]

\* brightness_score * 0.33 + variance_score * 0.33 + sharpness_score * 0.33,
\* kept in units of the weight: the value is (WeightNum / WeightDen) * <<num, den>>
calculate_frame_quality(rgb_data, w, h) ==
    LET s == SubScores(rgb_data, w, h)
    IN  RatAdd(RatAdd(s.brightness, s.variance), s.sharpness)

(***************************************************************************)
(* Frames the model decodes                                                *)
(***************************************************************************)
\* colours with a whole-number luminance: greys at and around the four
\* brightness breakpoints, and five colours that are not grey
Palette ==
    { <<0, 0, 0>>, <<21, 21, 21>>, <<22, 22, 22>>, <<56, 56, 56>>,
      <<100, 100, 100>>, <<171, 171, 171>>, <<194, 194, 194>>,
      <<195, 195, 195>>, <<255, 255, 255>>,
      <<8, 9, 192>>, <<39, 66, 7>>, <<7, 225, 119>>, <<30, 248, 142>>,
      <<163, 108, 43>> }

Masks == {"uniform", "checker", "center", "columns"}

Mask(m, x, y, w, h) ==
    CASE m = "uniform" -> TRUE
      [] m = "checker" -> (x + y) % 2 = 0
      [] m = "center"  -> x \in 1..(w - 2) /\ y \in 1..(h - 2)
      [] m = "columns" -> x % 2 = 0

\* the pixels of a w x h picture, row-major, as (r, g, b) tuples
Picture(w, h, a, b, m) ==
    [i \in 1..(w * h) |->
        IF Mask(m, (i - 1) % w, (i - 1) \div w, w, h) THEN a ELSE b]

\* sizes of the frames scored on their own
QualitySizes == {<<3, 3>>, <<4, 3>>, <<3, 4>>}

QualityInputs ==
    {[rgb_data |-> Picture(d[1], d[2], a, b, m), width |-> d[1], height |-> d[2]] :
        d \in QualitySizes, a \in Palette, b \in Palette, m \in Masks}

(***************************************************************************)
(* The extraction pipeline at rest, for the specifications of the pure     *)
(* functions                                                               *)
(***************************************************************************)
ExtractIdle ==
    /\ pc = "idle"
    /\ width = 0 /\ height = 0 /\ par = <<0, 1>>
    /\ duration = 0 /\ time_base = <<1, 1>>
    /\ metadata = << >>
    /\ seek_idx = 0 /\ packets_processed = 0
    /\ frames = << >> /\ frame_scores = << >>
    /\ result = [kind |-> "none"] /\ preview = [kind |-> "none"]
    /\ placeholder_calls = 0
    /\ attempts = << >> /\ frame_sample = << >>
    /\ packets_read = 0 /\ packets_sent = 0
    /\ last_exit = "none"

(***************************************************************************)
(* SpecQuality: calculate_frame_quality applied to one frame               *)
(***************************************************************************)
InitQuality ==
    /\ ExtractIdle
    /\ fin \in QualityInputs
    /\ fout = [done |-> FALSE]

ScoreFrame ==
    /\ ~fout.done
    /\ fout' = [done |-> TRUE,
                sub |-> SubScores(fin.rgb_data, fin.width, fin.height),
                score |-> calculate_frame_quality(fin.rgb_data, fin.width, fin.height)]
    /\ UNCHANGED <<fin, extractVars>>

NextQuality == ScoreFrame

SpecQuality == InitQuality /\ [][NextQuality]_vars

\* every colour of the palette has a whole-number luminance
PaletteExact == \A px \in Palette : Luminance10k(px) % LumScale = 0

InUnit(q) == q[2] > 0 /\ q[1] >= 0 /\ q[1] <= q[2]

\* C9: each of the brightness, variance and sharpness sub-scores lies in
\* [0, 1], the composite 0.33 b + 0.33 v + 0.33 s lies in [0, 1], and the
\* brightness score is 0 for mean luminance M <= 22, (M - 22) / 34 for
\* 22 <= M <= 56, 1 for 56 <= M <= 171, 1 - (M - 171) / 23 for
\* 171 <= M <= 194 and 0 for M >= 194: the closed intervals say that the
\* two neighbouring pieces give the same value at each breakpoint.
C9_ScoresInUnitInterval ==
    fout.done =>
        LET n == fin.width * fin.height
            T == SumSeq([i \in 1..Len(fin.rgb_data) |->
                            Luminance10k(fin.rgb_data[i])])
            M(k) == k * n * LumScale
            b == fout.sub.brightness
        IN  /\ InUnit(fout.sub.brightness)
            /\ InUnit(fout.sub.variance)
            /\ InUnit(fout.sub.sharpness)
            /\ fout.score[1] >= 0 /\ fout.score[2] > 0
            /\ WeightNum * fout.score[1] <= WeightDen * fout.score[2]
            /\ (T <= M(22) => b[1] = 0)
            /\ (M(22) <= T /\ T <= M(56) =>
                    b[1] * 34 * n * LumScale = b[2] * (T - M(22)))
            /\ (M(56) <= T /\ T <= M(171) => b[1] = b[2])
            /\ (M(171) <= T /\ T <= M(194) =>
                    (b[2] - b[1]) * 23 * n * LumScale = b[2] * (T - M(171)))
            /\ (T >= M(194) => b[1] = 0)

\* a frame on the overexposed ramp whose variance and sharpness are clamped
C9_Witness ==
    /\ fout.done
    /\ 0 < fout.sub.brightness[1] /\ fout.sub.brightness[1] < fout.sub.brightness[2]
    /\ fout.sub.variance = RatOne
    /\ fout.sub.sharpness = RatOne

(***************************************************************************)
(* Spec: read_video_with_metadata and extract_video_thumbnail on one file  *)
(***************************************************************************)
\* let max_packets = 20;
max_packets == 20

\* let seek_positions = [0.0, 0.25, 0.5, 0.75];
seek_positions == << <<0, 1>>, <<1, 4>>, <<1, 2>>, <<3, 4>> >>

\* packets of other streams the demuxer may interleave at one sample point
MaxOtherPackets == 1

\* (duration_seconds * seek_ratio) as i64: truncation toward zero
target_seconds(d, tb, ratio) ==
    LET n == d * tb[1] * ratio[1]
        m == tb[2] * ratio[2]
    IN  IF n < 0 THEN -((-n) \div m) ELSE n \div m

\* target_seconds.rescale((1, 1), rescale::TIME_BASE) for the sample point i:
\* seconds to AV_TIME_BASE units, 1000000 per second, counted here in seconds
target_timestamp(i) == target_seconds(duration, time_base, seek_positions[i])

Path == "clip.mp4"

\* the Err values of extract_video_thumbnail before the decoder is open
OpenErrors ==
    {"Failed to initialize ffmpeg", "Invalid path encoding", "Failed to open input",
     "No video stream found", "Failed to create decoder context",
     "Failed to create video decoder"}

\* the files the model opens: source geometry with pixel aspect ratio, and
\* stream duration with time base (a negative duration is what a stream of
\* unknown duration, AV_NOPTS_VALUE, reports)
Geometries ==
    {<<3, 3, <<0, 1>> >>, <<3, 3, <<1, 1>> >>, <<3, 3, <<3, 2>> >>}

Durations == {<<-8, <<1, 1>> >>, <<3725500, <<1, 1000>> >>}

\* the pictures a decode can yield: two of equal score, and two others
FramePatterns ==
    {<<"uniform", <<100, 100, 100>>, <<100, 100, 100>> >>,
     <<"uniform", <<163, 108, 43>>, <<163, 108, 43>> >>,
     <<"checker", <<0, 0, 0>>, <<255, 255, 255>> >>}

\* padding bytes the scaler may leave at the end of each row of rgb_frame
RowPaddings == {0, 1}

RECURSIVE Flatten(_)
Flatten(ss) == IF ss = << >> THEN << >> ELSE Head(ss) \o Flatten(Tail(ss))

\* rgb_frame after scaler.run: plane 0 with its line stride; data(0) holds
\* stride * height bytes
RgbFrame(w, h, pat, pad) ==
    LET pic == Picture(w, h, pat[2], pat[3], pat[1])
        row(y) == Flatten([x \in 1..w |-> pic[y * w + x]]) \o [k \in 1..pad |-> 0]
    IN  [data |-> Flatten([y \in 1..h |-> row(y - 1)]), linesize |-> 3 * w + pad]

\* the nested y, x loop that copies the pixels out of rgb_frame
RECURSIVE CopyPixelsFrom(_, _, _, _, _)
CopyPixelsFrom(data, linesize, frame_width, frame_height, k) ==
    IF k >= frame_width * frame_height THEN << >>
    ELSE LET y == k \div frame_width
             x == k % frame_width
             src_offset == y * linesize + x * 3
         IN  (IF src_offset + 2 < Len(data)
              THEN <<data[src_offset + 1], data[src_offset + 2], data[src_offset + 3]>>
              ELSE << >>)
             \o CopyPixelsFrom(data, linesize, frame_width, frame_height, k + 1)

CopyPixels(data, linesize, frame_width, frame_height) ==
    CopyPixelsFrom(data, linesize, frame_width, frame_height, 0)

\* rgb_pixels.chunks_exact(3).map(|chunk| (chunk[0], chunk[1], chunk[2]))
ChunksExact3(rgb_pixels) ==
    [i \in 1..(Len(rgb_pixels) \div 3) |->
        <<rgb_pixels[3 * i - 2], rgb_pixels[3 * i - 1], rgb_pixels[3 * i]>>]

\* Iterator::max_by over frame_scores.iter().enumerate(): the fold keeps the
\* running maximum only when it compares Greater, so the last of several equal
\* maxima is returned.  Indices are 1-based here.
RECURSIVE MaxByFrom(_, _, _)
MaxByFrom(scores, best, i) ==
    IF i > Len(scores) THEN best
    ELSE IF RatCmp(scores[best][1], scores[best][2], scores[i][1], scores[i][2]) = 1
         THEN MaxByFrom(scores, best, i + 1)
         ELSE MaxByFrom(scores, i, i + 1)

\* a running maximum replaced only by a strictly greater score
RECURSIVE MaxByStrictFrom(_, _, _)
MaxByStrictFrom(scores, best, i) ==
    IF i > Len(scores) THEN best
    ELSE IF RatCmp(scores[best][1], scores[best][2], scores[i][1], scores[i][2]) >= 0
         THEN MaxByStrictFrom(scores, best, i + 1)
         ELSE MaxByStrictFrom(scores, i, i + 1)

best_frame_index_first_wins(scores) == MaxByStrictFrom(scores, 1, 2)

best_frame_index(scores) == MaxByFrom(scores, 1, 2)

\* egui::ColorImage::from_rgb([w, h], rgb) of a frame's bytes
RgbImage(rgb) == [kind |-> "rgb", rgb |-> rgb]

\* ctx.load_texture(id, color_image, ..)
Texture(id, w, h, image) == [id |-> id, size |-> <<w, h>>, image |-> image]

Ok(t) == [kind |-> "ok", texture |-> t]
Err(e) == [kind |-> "err", cause |-> e]

Init ==
    /\ pc = "start"
    /\ \E g \in Geometries : width = g[1] /\ height = g[2] /\ par = g[3]
    /\ \E d \in Durations : duration = d[1] /\ time_base = d[2]
    /\ metadata = << >>
    /\ seek_idx = 0 /\ packets_processed = 0
    /\ frames = << >> /\ frame_scores = << >>
    /\ result = [kind |-> "none"] /\ preview = [kind |-> "none"]
    /\ placeholder_calls = 0
    /\ attempts = << >> /\ frame_sample = << >>
    /\ packets_read = 0 /\ packets_sent = 0
    /\ last_exit = "none"
    /\ fin = << >> /\ fout = [done |-> FALSE]

\* unchanged groups
fileVars == <<width, height, par, duration, time_base>>
loopVars == <<seek_idx, packets_processed, frames, frame_scores, attempts,
              frame_sample, packets_read, packets_sent, last_exit>>
outVars == <<result, preview, placeholder_calls>>
pureVars == <<fin, fout>>

\* read_video_with_metadata up to the call of extract_video_thumbnail: the
\* "File Size" entry when std::fs::metadata succeeds, and the "File Type" entry
\* of the path's extension
ReadStart ==
    /\ pc = "start"
    /\ \E has_file \in BOOLEAN :
          metadata' =
              LET m1 == IF has_file THEN Insert(metadata, "File Size", "1 KiB") ELSE metadata
              IN  Insert(m1, "File Type", "MP4")
    /\ pc' = "open"
    /\ UNCHANGED <<fileVars, loopVars, outVars, pureVars>>

\* the decoder fails only after the metadata.insert calls
OpenFail_AfterMetadata ==
    /\ pc = "open"
    /\ result' = Err("Failed to create video decoder")
    /\ metadata' = InsertCoreMetadata(metadata, width, height, par, duration, time_base)
    /\ pc' = "returned"
    /\ UNCHANGED <<fileVars, loopVars, preview, placeholder_calls, pureVars>>

\* init(), path.to_str(), format::input, streams().best, the decoder context or
\* the video decoder fails: Err through `?`, before any metadata.insert
OpenFail ==
    /\ pc = "open"
    /\ \E e \in OpenErrors : result' = Err(e)
    /\ pc' = "returned"
    /\ UNCHANGED <<fileVars, metadata, loopVars, preview, placeholder_calls, pureVars>>

\* the decoder is open: geometry, has_par and the metadata.insert calls
OpenOk ==
    /\ pc = "open"
    /\ metadata' = InsertCoreMetadata(metadata, width, height, par, duration, time_base)
    /\ pc' = "scaler"
    /\ UNCHANGED <<fileVars, loopVars, outVars, pureVars>>

\* ScalerContext::get fails
ScalerFail ==
    /\ pc = "scaler"
    /\ result' = Err("Failed to create scaler")
    /\ pc' = "returned"
    /\ UNCHANGED <<fileVars, metadata, loopVars, preview, placeholder_calls, pureVars>>

\* ScalerContext::get succeeds: frames and frame_scores are created empty and
\* the loop over seek_positions starts
ScalerOk ==
    /\ pc = "scaler"
    /\ seek_idx' = 1
    /\ frames' = << >> /\ frame_scores' = << >>
    /\ pc' = "seek"
    /\ UNCHANGED <<fileVars, metadata, packets_processed, attempts, frame_sample,
                   packets_read, packets_sent, last_exit, outVars, pureVars>>

\* a seek failure propagated with `?`
SeekFail_Fatal ==
    /\ pc = "seek" /\ seek_idx <= Len(seek_positions)
    /\ attempts' = Append(attempts, <<seek_idx, target_timestamp(seek_idx)>>)
    /\ last_exit' = "seek_failed"
    /\ result' = Err("Failed to seek")
    /\ pc' = "returned"
    /\ UNCHANGED <<fileVars, metadata, seek_idx, packets_processed, packets_read,
                   packets_sent, frames, frame_scores, frame_sample, preview,
                   placeholder_calls, pureVars>>

\* ictx.seek(..).is_err(): continue with the next seek position
SeekFail ==
    /\ pc = "seek" /\ seek_idx <= Len(seek_positions)
    /\ attempts' = Append(attempts, <<seek_idx, target_timestamp(seek_idx)>>)
    /\ seek_idx' = seek_idx + 1
    /\ last_exit' = "seek_failed"
    /\ UNCHANGED <<pc, fileVars, metadata, packets_processed, packets_read, packets_sent,
                   frames, frame_scores, frame_sample, outVars, pureVars>>

\* the seek succeeds: decoder.flush(), packets_processed = 0, packet loop
SeekOk ==
    /\ pc = "seek" /\ seek_idx <= Len(seek_positions)
    /\ attempts' = Append(attempts, <<seek_idx, target_timestamp(seek_idx)>>)
    /\ packets_processed' = 0
    /\ packets_read' = 0 /\ packets_sent' = 0
    /\ pc' = "packets"
    /\ UNCHANGED <<fileVars, metadata, seek_idx, frames, frame_scores, frame_sample,
                   last_exit, outVars, pureVars>>

\* the budget tested before the packet is counted
WithinBudget_TestedBeforeCount(processed) == processed <= max_packets

\* packets_processed += 1; if packets_processed > max_packets { break; }
\* holds when the packet counted next is not the one that breaks
WithinBudget(processed) == processed + 1 <= max_packets

\* leaving the packet loop of this sample point: its counters are locals of
\* the iteration and end with it
NextSamplePoint(how) ==
    /\ pc' = "seek"
    /\ seek_idx' = seek_idx + 1
    /\ packets_processed' = 0 /\ packets_read' = 0 /\ packets_sent' = 0
    /\ last_exit' = how

\* ictx.packets() is exhausted (end of file or read error)
PacketsEnd ==
    /\ pc = "packets"
    /\ NextSamplePoint("end_of_packets")
    /\ UNCHANGED <<fileVars, metadata, frames, frame_scores, attempts, frame_sample,
                   outVars, pureVars>>

\* a packet of another stream: continue, before packets_processed is touched
PacketOtherStream ==
    /\ pc = "packets"
    /\ packets_read - packets_processed < MaxOtherPackets
    /\ packets_read' = packets_read + 1
    /\ UNCHANGED <<pc, fileVars, metadata, seek_idx, packets_processed, frames,
                   frame_scores, attempts, frame_sample, packets_sent, last_exit,
                   outVars, pureVars>>

\* a video packet that takes packets_processed above max_packets: break
PacketOverBudget ==
    /\ pc = "packets"
    /\ ~WithinBudget(packets_processed)
    /\ NextSamplePoint("over_budget")
    /\ UNCHANGED <<fileVars, metadata, frames, frame_scores, attempts, frame_sample,
                   outVars, pureVars>>

\* a video packet within the budget that yields no frame and lets the loop go on
\* (the three `continue`/fall-through paths share their effect on the state)
VideoPacketNoFrame ==
    /\ pc = "packets"
    /\ WithinBudget(packets_processed)
    /\ packets_processed' = packets_processed + 1
    /\ packets_read' = packets_read + 1
    /\ packets_sent' = packets_sent + 1
    /\ UNCHANGED <<pc, fileVars, metadata, seek_idx, frames, frame_scores, attempts,
                   frame_sample, last_exit, outVars, pureVars>>

\* decoder.send_packet(&packet).is_err(): continue
PacketSendFail == VideoPacketNoFrame

\* send_packet succeeds, decoder.receive_frame is not ok: next packet
PacketNoFrame == VideoPacketNoFrame

\* receive_frame is ok, scaler.run(..).is_err(): continue
PacketScaleFail == VideoPacketNoFrame

\* the body of `if decoder.receive_frame(&mut frame).is_ok()` once scaler.run
\* has succeeded: the entry pushed to frames and the score pushed to frame_scores
Candidate(frame_width, frame_height, rgb_frame) ==
    LET rgb_pixels == CopyPixels(rgb_frame.data, rgb_frame.linesize,
                                 frame_width, frame_height)
        rgb_tuples == ChunksExact3(rgb_pixels)
    IN  [frame |-> <<frame_width, frame_height, rgb_pixels>>,
         quality_score |-> calculate_frame_quality(rgb_tuples, frame_width, frame_height)]

\* Candidate for every output geometry, picture and row padding of the model
CandidateTable ==
    [od \in {output_dims(g[1], g[2], g[3]) : g \in Geometries},
     pat \in FramePatterns, pad \in RowPaddings |->
        Candidate(od[1], od[2], RgbFrame(od[1], od[2], pat, pad))]

\* the `break` after frame_scores.push left out: the packet loop goes on after a
\* candidate was pushed
PacketFrame_NoBreak ==
    /\ pc = "packets"
    /\ WithinBudget(packets_processed)
    /\ \E pat \in FramePatterns, pad \in RowPaddings :
          LET c == CandidateTable[<<output_width, output_height>>, pat, pad]
          IN  /\ frames' = Append(frames, c.frame)
              /\ frame_scores' = Append(frame_scores, c.quality_score)
    /\ frame_sample' = Append(frame_sample, seek_idx)
    /\ packets_processed' = packets_processed + 1
    /\ packets_read' = packets_read + 1
    /\ packets_sent' = packets_sent + 1
    /\ UNCHANGED <<pc, seek_idx, last_exit, fileVars, metadata, attempts, outVars, pureVars>>

\* receive_frame and scaler.run succeed: copy the pixels, push the frame and its
\* score, break
PacketFrame ==
    /\ pc = "packets"
    /\ WithinBudget(packets_processed)
    /\ \E pat \in FramePatterns, pad \in RowPaddings :
          LET c == CandidateTable[<<output_width, output_height>>, pat, pad]
          IN  /\ frames' = Append(frames, c.frame)
              /\ frame_scores' = Append(frame_scores, c.quality_score)
    /\ frame_sample' = Append(frame_sample, seek_idx)
    /\ NextSamplePoint("frame")
    /\ UNCHANGED <<fileVars, metadata, attempts, outVars, pureVars>>

\* the is_empty test left out: unwrap_or(0) and an empty image
NoFrames_ReturnsOk ==
    /\ pc = "seek" /\ seek_idx > Len(seek_positions)
    /\ frames = << >>
    /\ result' = Ok(Texture("video_thumbnail_" \o Path, 0, 0, RgbImage(<< >>)))
    /\ pc' = "returned"
    /\ UNCHANGED <<fileVars, metadata, loopVars, preview, placeholder_calls, pureVars>>

\* after the loop: frames.is_empty()
NoFrames ==
    /\ pc = "seek" /\ seek_idx > Len(seek_positions)
    /\ frames = << >>
    /\ result' = Err("No frames could be extracted")
    /\ pc' = "returned"
    /\ UNCHANGED <<fileVars, metadata, loopVars, preview, placeholder_calls, pureVars>>

\* after the loop: the frame of best_frame_index becomes the texture
SelectBest ==
    /\ pc = "seek" /\ seek_idx > Len(seek_positions)
    /\ frames # << >>
    /\ LET f == frames[best_frame_index(frame_scores)]
       IN  result' = Ok(Texture("video_thumbnail_" \o Path, f[1], f[2], RgbImage(f[3])))
    /\ pc' = "returned"
    /\ UNCHANGED <<fileVars, metadata, loopVars, preview, placeholder_calls, pureVars>>

\* generate_placeholder_thumbnail: one pixel of the 320 x 240 pattern
PlaceholderWidth == 320
PlaceholderHeight == 240

PlaceholderPixel(x, y) ==
    LET rel_x == x - PlaceholderWidth \div 2
        rel_y == y - PlaceholderHeight \div 2
        abs_y == IF rel_y < 0 THEN -rel_y ELSE rel_y
        max_y == IF rel_x <= 0 THEN 15 ELSE 15 - (rel_x * 15) \div 15
    IN  IF rel_x \in (-15)..15 /\ abs_y <= 15 /\ abs_y <= max_y THEN <<220, 220, 220>>
        ELSE IF x < 2 \/ x >= PlaceholderWidth - 2 \/ y < 2 \/ y >= PlaceholderHeight - 2
             THEN <<80, 80, 80>>
        ELSE <<40, 40, 40>>

\* rgb_data of the placeholder: r, g, b of every pixel, row-major
PlaceholderRgb ==
    [i \in 1..(PlaceholderWidth * PlaceholderHeight * 3) |->
        LET k == (i - 1) \div 3
        IN  PlaceholderPixel(k % PlaceholderWidth, k \div PlaceholderWidth)[((i - 1) % 3) + 1]]

\* egui::ColorImage::from_rgb([width, height], &rgb_data) of the placeholder: the
\* image is named, its 230400 bytes are PlaceholderRgb
PlaceholderImage == [kind |-> "placeholder"]

\* the texture generate_placeholder_thumbnail returns
generate_placeholder_thumbnail ==
    Texture("video_placeholder_" \o Path, PlaceholderWidth, PlaceholderHeight, PlaceholderImage)

PreviewContent(m, t) == [kind |-> "video", title |-> Path, metadata |-> m, thumbnail |-> t]

\* Ok(texture) => texture
UseTexture ==
    /\ pc = "returned" /\ result.kind = "ok"
    /\ preview' = PreviewContent(metadata, result.texture)
    /\ pc' = "done"
    /\ UNCHANGED <<fileVars, metadata, loopVars, result, placeholder_calls, pureVars>>

\* the error arm builds the preview without calling the generator
Fallback_NoPlaceholder ==
    /\ pc = "returned" /\ result.kind = "err"
    /\ preview' = PreviewContent(metadata, Texture("video_thumbnail_" \o Path, 0, 0, RgbImage(<< >>)))
    /\ pc' = "done"
    /\ UNCHANGED <<fileVars, metadata, loopVars, result, placeholder_calls, pureVars>>

\* Err(_e) => generate_placeholder_thumbnail(ctx, path)
Fallback ==
    /\ pc = "returned" /\ result.kind = "err"
    /\ placeholder_calls' = placeholder_calls + 1
    /\ preview' = PreviewContent(metadata, generate_placeholder_thumbnail)
    /\ pc' = "done"
    /\ UNCHANGED <<fileVars, metadata, loopVars, result, pureVars>>

Next ==
    \/ ReadStart
    \/ OpenFail \/ OpenOk
    \/ ScalerFail \/ ScalerOk
    \/ SeekFail \/ SeekOk
    \/ PacketsEnd \/ PacketOtherStream \/ PacketOverBudget
    \/ PacketSendFail \/ PacketNoFrame \/ PacketScaleFail
    \/ PacketFrame
    \/ NoFrames \/ SelectBest
    \/ UseTexture \/ Fallback

Spec == Init /\ [][Next]_vars

TypeOK ==
    /\ pc \in {"start", "open", "scaler", "seek", "packets", "returned", "done"}
    /\ Len(frames) = Len(frame_scores)
    /\ packets_processed \in 0..(max_packets + 1)

(***************************************************************************)
(* Reading formatted values back                                           *)
(***************************************************************************)
DigitValue(c) ==
    CASE c = "0" -> 0 [] c = "1" -> 1 [] c = "2" -> 2 [] c = "3" -> 3 [] c = "4" -> 4
      [] c = "5" -> 5 [] c = "6" -> 6 [] c = "7" -> 7 [] c = "8" -> 8 [] c = "9" -> 9

IsDigits(str) ==
    /\ Len(str) > 0
    /\ \A i \in 1..Len(str) :
          \E d \in {"0", "1", "2", "3", "4", "5", "6", "7", "8", "9"} : SubSeq(str, i, i) = d

RECURSIVE ParseUInt(_)
ParseUInt(str) ==
    IF Len(str) = 1 THEN DigitValue(str)
    ELSE 10 * ParseUInt(SubSeq(str, 1, Len(str) - 1))
         + DigitValue(SubSeq(str, Len(str), Len(str)))

\* the fields of str between occurrences of the one-character separator
RECURSIVE SplitOn(_, _)
SplitOn(str, sep) ==
    IF \A i \in 1..Len(str) : SubSeq(str, i, i) # sep THEN <<str>>
    ELSE LET i == CHOOSE k \in 1..Len(str) :
                      /\ SubSeq(str, k, k) = sep
                      /\ \A j \in 1..(k - 1) : SubSeq(str, j, j) # sep
         IN  <<SubSeq(str, 1, i - 1)>> \o SplitOn(SubSeq(str, i + 1, Len(str)), sep)

\* a decimal number without padding: no leading zero unless it is "0"
Unpadded(str) == IsDigits(str) /\ (Len(str) > 1 => SubSeq(str, 1, 1) # "0")

(***************************************************************************)
(* Claims checked under Spec                                               *)
(***************************************************************************)
Returned == pc \in {"returned", "done"}

IsMaxScore(i) ==
    \A j \in 1..Len(frame_scores) : RatLeq(frame_scores[j], frame_scores[i])

SelectedIs(i) ==
    /\ result.texture.size = <<frames[i][1], frames[i][2]>>
    /\ result.texture.image = RgbImage(frames[i][3])

\* C1 as stated: the selected candidate has the maximum composite score, and
\* among candidates of exactly equal maximal score the one collected first is
\* selected.
C1_FirstOfEqualMaximaSelected ==
    Returned /\ result.kind = "ok" =>
        \E i \in 1..Len(frames) :
            /\ IsMaxScore(i)
            /\ \A j \in 1..(i - 1) : RatLess(frame_scores[j], frame_scores[i])
            /\ SelectedIs(i)

\* C1 amended: the selected candidate has the maximum composite score, and
\* among candidates of exactly equal maximal score the one collected last
\* (the latest sample index) is selected.
C1_LastOfEqualMaximaSelected ==
    Returned /\ result.kind = "ok" =>
        \E i \in 1..Len(frames) :
            /\ IsMaxScore(i)
            /\ \A j \in (i + 1)..Len(frames) : RatLess(frame_scores[j], frame_scores[i])
            /\ SelectedIs(i)

\* two different frames share the maximal score and one of them was selected
C1_Witness ==
    /\ Returned /\ result.kind = "ok"
    /\ \E i, j \in 1..Len(frames) :
          /\ i < j /\ IsMaxScore(i) /\ IsMaxScore(j)
          /\ frames[i] # frames[j]

AllSamplePoints == [i \in 1..Len(seek_positions) |-> i]

\* the sample points seeked to so far, in order
Attempted == [i \in 1..Len(attempts) |-> attempts[i][1]]

\* C2: a seek or decode failure at a sample point is not fatal and is not
\* retried: the sample points are attempted once each in the order 0%, 25%,
\* 50%, 75% whatever failed before, and extraction succeeds whenever at least
\* one sample point yielded a frame.
C2_SampleFailuresSkipped ==
    /\ pc = "seek" => Attempted = [i \in 1..(seek_idx - 1) |-> i]
    /\ pc = "packets" => Attempted = [i \in 1..seek_idx |-> i]
    /\ Returned /\ attempts # << >> => Attempted = AllSamplePoints
    /\ \A k \in 1..Len(attempts) :
          LET ds == duration * time_base[1]
              r == seek_positions[attempts[k][1]]
              t == attempts[k][2]
              mag == IF t < 0 THEN -t ELSE t
              dmag == IF ds < 0 THEN -ds ELSE ds
          IN  \* t is ds / time_base[2] * r truncated toward zero
              /\ (t < 0 => ds < 0) /\ (t > 0 => ds > 0)
              /\ mag * time_base[2] * r[2] <= dmag * r[1]
              /\ dmag * r[1] < (mag + 1) * time_base[2] * r[2]
    /\ Returned /\ frame_sample # << >> => result.kind = "ok"
    /\ \A k \in 1..Len(frame_sample) :
          /\ frame_sample[k] \in 1..Len(seek_positions)
          /\ \A j \in 1..(k - 1) : frame_sample[j] < frame_sample[k]

\* the first sample point gave no frame, the second did, the last seek failed,
\* and the extraction succeeded
C2_Witness ==
    /\ pc = "done" /\ result.kind = "ok"
    /\ frame_sample = <<2>>
    /\ last_exit = "seek_failed"

\* C3: when all four sample points fail (frames is empty after the loop)
\* extract_video_thumbnail returns a failure with a cause and no texture; it
\* returns success only when frames is not empty.
C3_EmptyCandidateSetFails ==
    Returned =>
        /\ result.kind \in {"ok", "err"}
        /\ result.kind = "ok" => frames # << >> /\ DOMAIN result = {"kind", "texture"}
        /\ frames = << >> =>
              /\ result.kind = "err"
              /\ DOMAIN result = {"kind", "cause"}
              /\ Len(result.cause) > 0

\* all four sample points were attempted and none gave a frame
C3_Witness ==
    /\ pc = "returned"
    /\ Attempted = AllSamplePoints
    /\ frames = << >>
    /\ result.kind = "err"

CoreKeys == {"Dimensions", "Display Dimensions", "Pixel Aspect Ratio", "Duration"}

\* C4 as stated: whenever extract_video_thumbnail fails, the caller receives
\* none of the core metadata entries.
C4_NoCoreMetadataOnFailure ==
    pc = "done" /\ result.kind = "err" =>
        DOMAIN preview.metadata \cap CoreKeys = {}

\* C4 amended: when extraction fails before the decoder is open, no core
\* metadata entry is added; when it fails later (scaler creation, empty
\* candidate set) the entries already inserted, Dimensions and Duration among
\* them, stay in the caller's map and are returned with the placeholder; a
\* success carries the entries together with the pixels of a decoded frame.
C4_CoreMetadataKeptAfterLateFailure ==
    pc = "done" =>
        /\ result.kind = "err" /\ result.cause \in OpenErrors =>
              DOMAIN preview.metadata \cap CoreKeys = {}
        /\ result.kind = "err" /\ result.cause \notin OpenErrors =>
              /\ {"Dimensions", "Duration"} \subseteq DOMAIN preview.metadata
              /\ preview.thumbnail = generate_placeholder_thumbnail
        /\ result.kind = "ok" =>
              /\ {"Dimensions", "Duration"} \subseteq DOMAIN preview.metadata
              /\ \E i \in 1..Len(frames) :
                    preview.thumbnail.image = RgbImage(frames[i][3])

\* every sample point failed and the preview has Dimensions with the placeholder
C4_Witness ==
    /\ pc = "done"
    /\ result = Err("No frames could be extracted")
    /\ "Dimensions" \in DOMAIN preview.metadata
    /\ preview.thumbnail = generate_placeholder_thumbnail

\* C5: whenever extract_video_thumbnail fails, generate_placeholder_thumbnail is
\* called and its 320 x 240 image is the thumbnail of the preview; whenever it
\* succeeds the generator is not called and the thumbnail is the selected frame;
\* extraction itself never returns the placeholder.
C5_PlaceholderOnlyOnFailure ==
    /\ pc # "done" => placeholder_calls = 0 /\ preview.kind = "none"
    /\ result.kind = "ok" =>
          /\ result.texture.id = "video_thumbnail_" \o Path
          /\ \E i \in 1..Len(frames) : SelectedIs(i)
    /\ pc = "done" /\ result.kind = "err" =>
          /\ placeholder_calls = 1
          /\ preview.thumbnail.id = "video_placeholder_" \o Path
          /\ preview.thumbnail.size = <<320, 240>>
          /\ preview.thumbnail.image.kind = "placeholder"
          /\ preview.thumbnail = generate_placeholder_thumbnail
          /\ Len(PlaceholderRgb) = 320 * 240 * 3
          /\ PlaceholderRgb[1] = 80
          /\ PlaceholderRgb[3 * (10 * 320 + 10) + 1] = 40
          /\ PlaceholderRgb[3 * (120 * 320 + 160) + 1] = 220
    /\ pc = "done" /\ result.kind = "ok" =>
          /\ placeholder_calls = 0
          /\ preview.thumbnail = result.texture

\* the extraction failed with an open error and the preview shows the placeholder
C5_Witness ==
    /\ pc = "done"
    /\ result = Err("No video stream found")
    /\ placeholder_calls = 1

\* C7: once the decoder is open the metadata has "Dimensions", the source
\* geometry as "{width}x{height}", and "Duration"; it has "Display Dimensions"
\* and "Pixel Aspect Ratio" = "{num}:{den}" exactly when the pixel aspect ratio
\* has no zero component and is not 1:1, both keys together or neither.
C7_MetadataKeys ==
    LET opened == \/ pc \in {"scaler", "seek", "packets"}
                  \/ Returned /\ result.kind = "ok"
                  \/ Returned /\ result.kind = "err" /\ result.cause \notin OpenErrors
        corrected == par[1] # 0 /\ par[2] # 0 /\ par # <<1, 1>>
        dims == SplitOn(metadata["Dimensions"], "x")
        ratio == SplitOn(metadata["Pixel Aspect Ratio"], ":")
    IN  opened =>
          /\ {"Dimensions", "Duration"} \subseteq DOMAIN metadata
          /\ Len(dims) = 2
          /\ Unpadded(dims[1]) /\ ParseUInt(dims[1]) = width
          /\ Unpadded(dims[2]) /\ ParseUInt(dims[2]) = height
          /\ "Display Dimensions" \in DOMAIN metadata <=> corrected
          /\ "Pixel Aspect Ratio" \in DOMAIN metadata <=> corrected
          /\ corrected =>
                /\ Len(ratio) = 2
                /\ Unpadded(ratio[1]) /\ ParseUInt(ratio[1]) = par[1]
                /\ Unpadded(ratio[2]) /\ ParseUInt(ratio[2]) = par[2]
          /\ DOMAIN metadata \subseteq CoreKeys \cup {"File Size", "File Type"}

\* the decoder is open on a stream with pixel aspect ratio 3:2
C7_Witness ==
    /\ pc = "seek"
    /\ "Pixel Aspect Ratio" \in DOMAIN metadata
    /\ metadata["Pixel Aspect Ratio"] = "3:2"
    /\ metadata["Dimensions"] = "3x3"

\* C10 as stated: at most 20 packets are consumed at a sample point.
C10_AtMostTwentyPacketsConsumed == packets_read <= 20

\* C10 amended: at each sample point at most 20 packets of the video stream
\* are given to the decoder; packets of other streams are read and skipped
\* without counting; once 20 video packets have been processed without a
\* frame, no frame is taken at this sample point any more and the next video
\* packet moves the sampler to the next sample point.
C10_TwentyVideoPacketsSent ==
    [][/\ packets_sent' <= 20
       /\ packets_processed' <= 20
       /\ packets_sent' = packets_processed'
       /\ pc = "packets" /\ packets_processed = 20 =>
             /\ frames' = frames
             /\ packets_sent' <= packets_sent
             /\ pc' = "seek" => seek_idx' = seek_idx + 1
             /\ \/ pc' = "seek" /\ last_exit' \in {"over_budget", "end_of_packets"}
                \/ pc' = "packets" /\ packets_read' = packets_read + 1
       /\ last_exit' = "over_budget" /\ last_exit # "over_budget" =>
             pc = "packets" /\ packets_processed = 20
      ]_vars

\* a sample point was abandoned after 20 video packets without a frame
C10_Witness ==
    /\ pc = "seek"
    /\ seek_idx = 2
    /\ last_exit = "over_budget"
    /\ frames = << >>

\* the sample ratio of the k-th candidate
CandidateRatio(k) == seek_positions[frame_sample[k]]

GeometryInputs ==
    {[width |-> w, height |-> h, par |-> <<n, d>>] :
        w \in {0, 1, 3, 640, 720, 1920}, h \in {0, 1, 480, 576, 1080},
        n \in {0, 1, 2, 3, 10, 16, 64}, d \in {0, 1, 2, 11, 15, 45}}

InitGeometry ==
    /\ ExtractIdle
    /\ fin \in GeometryInputs
    /\ fout = [done |-> FALSE]

ComputeGeometry ==
    /\ ~fout.done
    /\ fout' = [done |-> TRUE, output |-> output_dims(fin.width, fin.height, fin.par)]
    /\ UNCHANGED <<fin, extractVars>>

NextGeometry == ComputeGeometry

SpecGeometry == InitGeometry /\ [][NextGeometry]_vars

\* C6: when the pixel aspect ratio (num, den) has num # 0, den # 0 and is not
\* 1:1, output_width is the floor of width * num / den and output_height is
\* height; otherwise the output dimensions are the source dimensions; (2, 1)
\* with 640 x 480 gives 1280 x 480.
C6_OutputGeometry ==
    fout.done =>
        LET num == fin.par[1]
            den == fin.par[2]
            ow == fout.output[1]
            oh == fout.output[2]
        IN  /\ IF num # 0 /\ den # 0 /\ ~(num = 1 /\ den = 1)
               THEN /\ ow * den <= fin.width * num
                    /\ fin.width * num < (ow + 1) * den
                    /\ oh = fin.height
               ELSE ow = fin.width /\ oh = fin.height
            /\ fin = [width |-> 640, height |-> 480, par |-> <<2, 1>>] =>
                  fout.output = <<1280, 480>>

\* 720 x 576 with pixel aspect ratio 16:11: the quotient 1047.27.. is truncated
C6_Witness ==
    /\ fout.done
    /\ fin = [width |-> 720, height |-> 576, par |-> <<16, 11>>]
    /\ fout.output = <<1047, 576>>

(***************************************************************************)
(* SpecDuration: the "Duration" entry of one stream                        *)
(***************************************************************************)
DurationInputs ==
    {[duration |-> t, time_base |-> <<1, 1>>] :
        t \in (-1)..130 \cup {599, 600, 3599, 3600, 3601, 3660, 3725, 7199, 35999,
                              36000, 86399, 360000, 3599999}}
    \cup {[duration |-> 1000 * t + 999, time_base |-> <<1, 1000>>] :
            t \in {0, 59, 60, 95, 3599, 3725}}
    \cup {[duration |-> 3003 * t, time_base |-> <<1001, 30000>>] :
            t \in {0, 1, 59, 600}}

InitDuration ==
    /\ ExtractIdle
    /\ fin \in DurationInputs
    /\ fout = [done |-> FALSE]

ComputeDuration ==
    /\ ~fout.done
    /\ fout' = [done |-> TRUE,
                total |-> total_seconds(fin.duration, fin.time_base),
                text |-> FormatDuration(total_seconds(fin.duration, fin.time_base))]
    /\ UNCHANGED <<fin, extractVars>>

NextDuration == ComputeDuration

SpecDuration == InitDuration /\ [][NextDuration]_vars

\* C8: for T whole seconds, the floor of duration_seconds, the Duration value
\* is "H:MM:SS" with H = T div 3600, MM = (T mod 3600) div 60, SS = T mod 60
\* (MM and SS two digits) when H > 0, and "M:SS" with M = T div 60 unpadded
\* otherwise; 3725 gives "1:02:05" and 95 gives "1:35".
C8_DurationFormat ==
    fout.done =>
        LET T == fout.total
            ticks == fin.duration * fin.time_base[1]
            f == SplitOn(fout.text, ":")
            TwoDigits(str) == Len(str) = 2 /\ IsDigits(str)
        IN  /\ ticks >= 0 =>
                  T * fin.time_base[2] <= ticks /\ ticks < (T + 1) * fin.time_base[2]
            /\ IF T >= 3600
               THEN /\ Len(f) = 3
                    /\ Unpadded(f[1]) /\ ParseUInt(f[1]) = T \div 3600
                    /\ TwoDigits(f[2]) /\ ParseUInt(f[2]) = (T % 3600) \div 60
                    /\ TwoDigits(f[3]) /\ ParseUInt(f[3]) = T % 60
               ELSE /\ Len(f) = 2
                    /\ Unpadded(f[1]) /\ ParseUInt(f[1]) = T \div 60
                    /\ TwoDigits(f[2]) /\ ParseUInt(f[2]) = T % 60
            /\ T = 3725 => fout.text = "1:02:05"
            /\ T = 95 => fout.text = "1:35"

\* 3725 seconds were formatted with zero-padded minutes and seconds
C8_Witness ==
    /\ fout.done
    /\ fin.duration = 3725 /\ fin.time_base = <<1, 1>>
    /\ fout.text = "1:02:05"

(***************************************************************************)
(* SpecNormalize: the pixel copy loop applied to one plane of rgb_frame     *)
(***************************************************************************)
\* byte k (0-based) of the decoder's plane; 37 is odd, so the bytes of a plane
\* of up to 256 bytes are all different
DecoderByte(k) == (k * 37 + 11) % 256

\* rgb_frame.data(0) of a given length
DecoderData(len) == [k \in 1..len |-> DecoderByte(k - 1)]

\* planes of frame_width x frame_height pixels whose line stride is
\* frame_width * 3 plus a padding, and whose buffer holds stride * height
\* bytes, up to three bytes fewer, or two bytes more
NormalizeInputs ==
    {[frame_width |-> w, frame_height |-> h, linesize |-> 3 * w + pad,
      data |-> DecoderData((3 * w + pad) * h - short)] :
        w \in 1..3, h \in 1..3, pad \in {0, 1, 4}, short \in {3, 2, 1, 0, -2}}

InitNormalize ==
    /\ ExtractIdle
    /\ fin \in NormalizeInputs
    /\ fout = [done |-> FALSE]

\* let mut rgb_pixels = Vec::with_capacity(..); for y .. for x .. push
CopyFrame ==
    /\ ~fout.done
    /\ fout' = [done |-> TRUE,
                rgb_pixels |-> CopyPixels(fin.data, fin.linesize,
                                          fin.frame_width, fin.frame_height)]
    /\ UNCHANGED <<fin, extractVars>>

NextNormalize == CopyFrame

SpecNormalize == InitNormalize /\ [][NextNormalize]_vars

\* C12: the pixel buffer of a candidate has exactly
\* output_width * output_height * 3 bytes, row-major with a row stride of
\* output_width * 3, and its byte (y, x, c) is the decoder's byte
\* y * linesize + 3 * x + c, for every line stride >= output_width * 3 and
\* every length of the decoder's buffer.
C12_BufferExactForEveryLength ==
    fout.done =>
        /\ fin.linesize >= fin.frame_width * 3
        /\ Len(fout.rgb_pixels) = fin.frame_width * fin.frame_height * 3
        /\ \A y \in 0..(fin.frame_height - 1), x \in 0..(fin.frame_width - 1), c \in 0..2 :
              fout.rgb_pixels[(y * fin.frame_width + x) * 3 + c + 1]
                  = fin.data[y * fin.linesize + 3 * x + c + 1]

\* a plane one byte short of its last pixel was copied: the buffer lacks the
\* three bytes of that pixel
C12_Witness ==
    /\ fout.done
    /\ fin.frame_width = 3 /\ fin.frame_height = 3 /\ fin.linesize = 9
    /\ Len(fin.data) = 26
    /\ Len(fout.rgb_pixels) = 24
    /\ fout.rgb_pixels = SubSeq(fin.data, 1, 24)

(***************************************************************************)
(* SpecDegenerate: calculate_frame_quality applied to one frame that has no *)
(* interior pixel                                                          *)
(***************************************************************************)
\* `height - 1` and `width - 1` are u32 subtractions.  height - 1 is evaluated
\* once, width - 1 at every iteration of the outer loop, which has one when
\* height >= 3 (or when height - 1 wrapped, but then height - 1 has
\* underflowed already).
LaplacianRangeUnderflows(w, h) == h = 0 \/ (w = 0 /\ h >= 3)

\* what a call of calculate_frame_quality can do: an underflowing subtraction
\* panics in a build with overflow checks and wraps around in a build without
FrameQualityOutcomes(rgb_data, w, h) ==
    {[panicked |-> FALSE,
      sub |-> SubScores(rgb_data, w, h),
      score |-> calculate_frame_quality(rgb_data, w, h)]}
    \cup (IF LaplacianRangeUnderflows(w, h) THEN {[panicked |-> TRUE]} ELSE {})

\* the colours of the degenerate frames
DegenerateColours ==
    {<<0, 0, 0>>, <<56, 56, 56>>, <<100, 100, 100>>, <<195, 195, 195>>,
     <<255, 255, 255>>, <<163, 108, 43>>}

\* the dimensions of a frame without interior pixel: width <= 2 or height <= 2,
\* dimensions of 0 included
DegenerateSizes == {d \in (0..4) \X (0..4) : d[1] <= 2 \/ d[2] <= 2}

DegenerateInputs ==
    {[rgb_data |-> Picture(d[1], d[2], a, b, m), width |-> d[1], height |-> d[2]] :
        d \in DegenerateSizes, a \in DegenerateColours, b \in DegenerateColours,
        m \in Masks}

InitDegenerate ==
    /\ ExtractIdle
    /\ fin \in DegenerateInputs
    /\ fout = [done |-> FALSE]

ScoreDegenerate ==
    /\ ~fout.done
    /\ \E o \in FrameQualityOutcomes(fin.rgb_data, fin.width, fin.height) :
          fout' = [done |-> TRUE, outcome |-> o]
    /\ UNCHANGED <<fin, extractVars>>

NextDegenerate == ScoreDegenerate

SpecDegenerate == InitDegenerate /\ [][NextDegenerate]_vars

\* C13: for every frame without interior pixel, that is of width <= 2 or
\* height <= 2, widths and heights of 0 and 1 included,
\* calculate_frame_quality completes normally, its sharpness sub-score is 0.0
\* and the composite is 0.33 * brightness + 0.33 * variance.
C13_DegenerateFrameScored ==
    fout.done =>
        /\ fin.width <= 2 \/ fin.height <= 2
        /\ ~fout.outcome.panicked
        /\ fout.outcome.sub.sharpness = RatZero
        /\ fout.outcome.score
              = RatAdd(fout.outcome.sub.brightness, fout.outcome.sub.variance)

\* a frame of width 3 and height 0 was scored by a build with overflow checks:
\* `height - 1` panicked
C13_Witness ==
    /\ fout.done
    /\ fin.width = 3 /\ fin.height = 0 /\ fin.rgb_data = << >>
    /\ fout.outcome.panicked

====
